---- MODULE Spec2Model ----
(***************************************************************************)
(* SharedChild (src/src/lib.rs): one child process shared by several       *)
(* threads that call wait, try_wait and kill on it concurrently.           *)
(*                                                                         *)
(* Every thread is a small program counter machine.  A step of the model   *)
(* is one stretch of a method between two points where another thread can  *)
(* interleave observably: acquiring a mutex, blocking on the condition     *)
(* variable, blocking in the platform wait.  The platform (mod sys and     *)
(* std::process::Child::kill) is not part of lib.rs; it is modelled from   *)
(* its contract: a process is running, then a zombie (exited, exit record  *)
(* still there), then reaped (exit record consumed, identifier free).      *)
(***************************************************************************)
EXTENDS Naturals, FiniteSets

VARIABLES
    state,          \* *state_lock: the ChildState value
    state_lock,     \* the set of threads holding the state_lock mutex (0 or 1)
    child_lock,     \* the set of threads holding the child mutex (0 or 1)
    pc,             \* pc[t]: where thread t stands
    noreap_result,  \* noreap_result[t]: the local of wait(), line 107
    proc,           \* the child process: "running", "zombie", "reaped"
    exit_status,    \* the status the child exited with, NoStatus before
    signalled,      \* a kill signal was delivered to the running child
    faulty,         \* whether platform calls may fail in this run
    lastRet,        \* the return a thread made in the last step, NoRet if none
    lastSys,        \* the platform call issued in the last step, "none" if none
    returned,       \* every exit status wait or try_wait has returned so far
    sigToReaped,    \* a kill signal was sent after the child had been reaped
    calledAfterExit, \* calledAfterExit[t]: t is in a try_wait call that it made
                     \* after the child had exited
    queuedAtFailure  \* queuedAtFailure[t]: t was blocked on the condvar when a
                     \* waiter's attempt failed and has not yet looked at the
                     \* state again (lines 72-89) since that wakeup

vars == <<state, state_lock, child_lock, pc, noreap_result, proc, exit_status,
          signalled, faulty, lastRet, lastSys, returned, sigToReaped,
          calledAfterExit, queuedAtFailure>>

\* The number of threads sharing the SharedChild.
NThreads == 3

Threads == 1..NThreads

\* Exit statuses: exit code 0, killed by the signal.
Statuses == {"code0", "sigkill"}

NoStatus == "nostatus"

\* enum ChildState
NotWaiting == [tag |-> "NotWaiting", st |-> NoStatus]

Waiting == [tag |-> "Waiting", st |-> NoStatus]

Exited(s) == [tag |-> "Exited", st |-> s]

ChildStates == {NotWaiting, Waiting} \cup {Exited(s) : s \in Statuses}

\* Return values of the three public methods.
Ret(op, tag, s) == [op |-> op, tag |-> tag, st |-> s]

NoRet == Ret("none", "-", NoStatus)

WaitOk(s) == Ret("wait", "Ok", s)

WaitErr == Ret("wait", "Err", NoStatus)

TryWaitSome(s) == Ret("try_wait", "Some", s)

TryWaitNone == Ret("try_wait", "None", NoStatus)

TryWaitErr == Ret("try_wait", "Err", NoStatus)

\* kill returns Ok(()) or an error; the third field notes whether the call
\* reached Child::kill.
KillOk(sig) == Ret("kill", "Ok", sig)

KillErr == Ret("kill", "Err", "signal")

WaitPcs == {"w_lock", "w_loop", "w_cv", "w_noreap", "w_lock2", "w_reap"}

\* Between `*state = Waiting` (line 96) and the assignment of line 123.
WaiterSection == {"w_noreap", "w_lock2", "w_reap"}

TryWaitPcs == {"t_lock", "t_poll"}

KillPcs == {"k_lock", "k_check", "k_childlock", "k_signal"}

Pcs == {"idle"} \cup WaitPcs \cup TryWaitPcs \cup KillPcs

TypeOK ==
    /\ state \in ChildStates
    /\ state_lock \in SUBSET Threads /\ Cardinality(state_lock) <= 1
    /\ child_lock \in SUBSET Threads /\ Cardinality(child_lock) <= 1
    /\ pc \in [Threads -> Pcs]
    /\ noreap_result \in [Threads -> {"-", "Ok", "Err"}]
    /\ proc \in {"running", "zombie", "reaped"}
    /\ exit_status \in Statuses \cup {NoStatus}
    /\ signalled \in BOOLEAN
    /\ faulty \in BOOLEAN
    /\ lastRet \in [op : {"none", "wait", "try_wait", "kill"},
                   tag : {"-", "Ok", "Err", "Some", "None"},
                   st : Statuses \cup {NoStatus, "signal", "nosignal"}]
    /\ lastSys \in {"none", "wait_without_reaping", "try_wait", "kill"}
    /\ returned \subseteq Statuses
    /\ sigToReaped \in BOOLEAN
    /\ calledAfterExit \in [Threads -> BOOLEAN]
    /\ queuedAtFailure \in [Threads -> BOOLEAN]

(***************************************************************************)
(* The platform, from its contract.                                        *)
(***************************************************************************)

\* sys::wait_without_reaping: blocks while the child runs, returns Ok once it
\* has exited, leaves the exit record alone.  Fails on a child that is gone;
\* a faulty platform may fail at any time, or report an exit that has not
\* happened (the case line 119 provides for).
SysWaitWithoutReaping ==
    CASE proc = "zombie"  -> {"Ok"} \cup (IF faulty THEN {"Err"} ELSE {})
      [] proc = "reaped"  -> {"Err"}
      [] proc = "running" -> IF faulty THEN {"Ok", "Err"} ELSE {}

\* sys::try_wait: never blocks.  Some(status) consumes the exit record of a
\* zombie; None on a running child; an error on a child that is gone.
SysTryWait ==
    CASE proc = "zombie"  -> {[tag |-> "Some", st |-> exit_status]}
                               \cup (IF faulty THEN {[tag |-> "Err", st |-> NoStatus]} ELSE {})
      [] proc = "reaped"  -> {[tag |-> "Err", st |-> NoStatus]}
      [] proc = "running" -> {[tag |-> "None", st |-> NoStatus]}
                               \cup (IF faulty THEN {[tag |-> "Err", st |-> NoStatus]} ELSE {})

\* The effect of a sys::try_wait that returned r on the process.
Reap(r) == IF r.tag = "Some" THEN "reaped" ELSE proc

\* std::process::Child::kill: sends the kill signal to the process identifier.
SysKill == {"Ok"} \cup (IF faulty THEN {"Err"} ELSE {})

\* The child exits: by the signal if one was delivered, else on its own.
ChildExit ==
    /\ proc = "running"
    /\ \E s \in (IF signalled THEN {"sigkill"} ELSE {"code0"}) :
          exit_status' = s
    /\ proc' = "zombie"
    /\ lastSys' = "none"
    /\ lastRet' = NoRet
    /\ UNCHANGED <<state, state_lock, child_lock, pc, noreap_result, signalled,
                   faulty, returned, sigToReaped, calledAfterExit>>
    /\ UNCHANGED queuedAtFailure

Init ==
    /\ state = NotWaiting
    /\ state_lock = {}
    /\ child_lock = {}
    /\ pc = [t \in Threads |-> "idle"]
    /\ noreap_result = [t \in Threads |-> "-"]
    /\ proc = "running"
    /\ exit_status = NoStatus
    /\ signalled = FALSE
    /\ faulty \in BOOLEAN
    /\ lastRet = NoRet
    /\ lastSys = "none"
    /\ returned = {}
    /\ sigToReaped = FALSE
    /\ calledAfterExit = [t \in Threads |-> FALSE]
    /\ queuedAtFailure = [t \in Threads |-> FALSE]

(***************************************************************************)
(* wait, lines 70-130.                                                     *)
(***************************************************************************)

\* A thread that is in no call calls wait.
StartWait(t) ==
    /\ pc[t] = "idle"
    /\ pc' = [pc EXCEPT ![t] = "w_lock"]
    /\ lastSys' = "none"
    /\ lastRet' = NoRet
    /\ UNCHANGED <<state, state_lock, child_lock, noreap_result, proc, exit_status,
                   signalled, faulty, returned, sigToReaped, calledAfterExit>>
    /\ UNCHANGED queuedAtFailure

\* Line 71, and the re-acquisition that ends Condvar::wait on line 85.
WaitLock(t) ==
    /\ pc[t] = "w_lock"
    /\ state_lock = {}
    /\ state_lock' = {t}
    /\ pc' = [pc EXCEPT ![t] = "w_loop"]
    /\ lastSys' = "none"
    /\ lastRet' = NoRet
    /\ UNCHANGED <<state, child_lock, noreap_result, proc, exit_status, signalled,
                   faulty, returned, sigToReaped, calledAfterExit>>
    /\ UNCHANGED queuedAtFailure

\* WaitLoop without the Waiting arm: a caller that finds Waiting becomes a
\* waiter too.
WaitLoopNoCondvar(t) ==
    /\ pc[t] = "w_loop"
    /\ state_lock' = {}
    /\ lastSys' = "none"
    /\ IF state.tag = "Exited"
         THEN /\ pc' = [pc EXCEPT ![t] = "idle"]
              /\ lastRet' = WaitOk(state.st)
              /\ returned' = returned \cup {state.st}
              /\ UNCHANGED state
         ELSE /\ state' = Waiting
              /\ pc' = [pc EXCEPT ![t] = "w_noreap"]
              /\ lastRet' = NoRet /\ UNCHANGED returned
    /\ UNCHANGED <<child_lock, noreap_result, proc, exit_status, signalled, faulty,
                   sigToReaped, calledAfterExit>>
    /\ queuedAtFailure' = [queuedAtFailure EXCEPT ![t] = FALSE]

\* WaitLoop whose Exited arm returns a successful status of its own instead of
\* the cached one.
WaitLoopDefaultStatus(t) ==
    /\ pc[t] = "w_loop"
    /\ state_lock' = {}
    /\ lastSys' = "none"
    /\ CASE state.tag = "NotWaiting" ->
              /\ state' = Waiting
              /\ pc' = [pc EXCEPT ![t] = "w_noreap"]
              /\ lastRet' = NoRet /\ UNCHANGED returned
         [] state.tag = "Waiting" ->
              /\ pc' = [pc EXCEPT ![t] = "w_cv"]
              /\ lastRet' = NoRet /\ UNCHANGED <<state, returned>>
         [] state.tag = "Exited" ->
              /\ pc' = [pc EXCEPT ![t] = "idle"]
              /\ lastRet' = WaitOk("code0")
              /\ returned' = returned \cup {"code0"}
              /\ UNCHANGED state
    /\ UNCHANGED <<child_lock, noreap_result, proc, exit_status, signalled, faulty,
                   sigToReaped, calledAfterExit>>
    /\ queuedAtFailure' = [queuedAtFailure EXCEPT ![t] = FALSE]

\* WaitLoop without the drop of line 97: the waiter keeps the state lock
\* while it is in the platform wait.
WaitLoopKeepsLock(t) ==
    /\ pc[t] = "w_loop"
    /\ lastSys' = "none"
    /\ CASE state.tag = "NotWaiting" ->
              /\ state' = Waiting
              /\ pc' = [pc EXCEPT ![t] = "w_noreap"]
              /\ lastRet' = NoRet /\ UNCHANGED <<returned, state_lock>>
         [] state.tag = "Waiting" ->
              /\ pc' = [pc EXCEPT ![t] = "w_cv"]
              /\ state_lock' = {}
              /\ lastRet' = NoRet /\ UNCHANGED <<state, returned>>
         [] state.tag = "Exited" ->
              /\ pc' = [pc EXCEPT ![t] = "idle"]
              /\ lastRet' = WaitOk(state.st)
              /\ returned' = returned \cup {state.st}
              /\ state_lock' = {}
              /\ UNCHANGED state
    /\ UNCHANGED <<child_lock, noreap_result, proc, exit_status, signalled, faulty,
                   sigToReaped, calledAfterExit>>
    /\ queuedAtFailure' = [queuedAtFailure EXCEPT ![t] = FALSE]

\* A condvar wait that keeps the state lock while blocked.
WaitLoopCvKeepsLock(t) ==
    /\ pc[t] = "w_loop"
    /\ lastSys' = "none"
    /\ CASE state.tag = "NotWaiting" ->
              /\ state' = Waiting
              /\ pc' = [pc EXCEPT ![t] = "w_noreap"]
              /\ state_lock' = {}
              /\ lastRet' = NoRet /\ UNCHANGED returned
         [] state.tag = "Waiting" ->
              /\ pc' = [pc EXCEPT ![t] = "w_cv"]
              /\ lastRet' = NoRet /\ UNCHANGED <<state, returned, state_lock>>
         [] state.tag = "Exited" ->
              /\ pc' = [pc EXCEPT ![t] = "idle"]
              /\ lastRet' = WaitOk(state.st)
              /\ returned' = returned \cup {state.st}
              /\ state_lock' = {}
              /\ UNCHANGED state
    /\ UNCHANGED <<child_lock, noreap_result, proc, exit_status, signalled, faulty,
                   sigToReaped, calledAfterExit>>
    /\ queuedAtFailure' = [queuedAtFailure EXCEPT ![t] = FALSE]

\* Lines 72-97, one pass of the loop with the state lock held.  NotWaiting:
\* break, set Waiting, drop the lock.  Waiting: block on the condvar, which
\* releases the lock.  Exited: return the cached status.
WaitLoop(t) ==
    /\ pc[t] = "w_loop"
    /\ state_lock' = {}
    /\ lastSys' = "none"
    /\ CASE state.tag = "NotWaiting" ->
              /\ state' = Waiting
              /\ pc' = [pc EXCEPT ![t] = "w_noreap"]
              /\ lastRet' = NoRet /\ UNCHANGED returned
         [] state.tag = "Waiting" ->
              /\ pc' = [pc EXCEPT ![t] = "w_cv"]
              /\ lastRet' = NoRet /\ UNCHANGED <<state, returned>>
         [] state.tag = "Exited" ->
              /\ pc' = [pc EXCEPT ![t] = "idle"]
              /\ lastRet' = WaitOk(state.st)
              /\ returned' = returned \cup {state.st}
              /\ UNCHANGED state
    /\ UNCHANGED <<child_lock, noreap_result, proc, exit_status, signalled, faulty,
                   sigToReaped, calledAfterExit>>
    /\ queuedAtFailure' = [queuedAtFailure EXCEPT ![t] = FALSE]

\* A thread blocked in Condvar::wait wakes without a notification (lines 83-84).
SpuriousWakeup(t) ==
    /\ pc[t] = "w_cv"
    /\ pc' = [pc EXCEPT ![t] = "w_lock"]
    /\ lastSys' = "none"
    /\ lastRet' = NoRet
    /\ UNCHANGED <<state, state_lock, child_lock, noreap_result, proc, exit_status,
                   signalled, faulty, returned, sigToReaped, calledAfterExit>>
    /\ UNCHANGED queuedAtFailure

\* The error of the non-reaping wait returned at once, as by the ? operator.
WaitNoreapEarlyReturn(t) ==
    /\ pc[t] = "w_noreap"
    /\ \E r \in SysWaitWithoutReaping :
          IF r = "Ok"
            THEN /\ noreap_result' = [noreap_result EXCEPT ![t] = r]
                 /\ pc' = [pc EXCEPT ![t] = "w_lock2"]
                 /\ lastRet' = NoRet
            ELSE /\ pc' = [pc EXCEPT ![t] = "idle"]
                 /\ lastRet' = WaitErr
                 /\ UNCHANGED noreap_result
    /\ lastSys' = "wait_without_reaping"
    /\ UNCHANGED <<state, state_lock, child_lock, proc, exit_status, signalled,
                   faulty, returned, sigToReaped, calledAfterExit, queuedAtFailure>>

\* Line 107: the platform wait, with no lock held.
WaitNoreap(t) ==
    /\ pc[t] = "w_noreap"
    /\ \E r \in SysWaitWithoutReaping : noreap_result' = [noreap_result EXCEPT ![t] = r]
    /\ pc' = [pc EXCEPT ![t] = "w_lock2"]
    /\ lastSys' = "wait_without_reaping"
    /\ lastRet' = NoRet
    /\ UNCHANGED <<state, state_lock, child_lock, proc, exit_status, signalled,
                   faulty, returned, sigToReaped, calledAfterExit>>
    /\ UNCHANGED queuedAtFailure

\* Line 113.
WaitRelock(t) ==
    /\ pc[t] = "w_lock2"
    /\ state_lock = {}
    /\ state_lock' = {t}
    /\ pc' = [pc EXCEPT ![t] = "w_reap"]
    /\ lastSys' = "none"
    /\ lastRet' = NoRet
    /\ UNCHANGED <<state, child_lock, noreap_result, proc, exit_status, signalled,
                   faulty, returned, sigToReaped, calledAfterExit>>
    /\ UNCHANGED queuedAtFailure

\* FinalResult that takes "still running" for a successful exit.
FinalResultDefault(nr, r) ==
    IF nr = "Ok" /\ r.tag \in {"Some", "None"}
      THEN WaitOk(IF r.tag = "Some" THEN r.st ELSE "code0")
      ELSE WaitErr

\* Lines 114-122: final_result, from noreap_result and, when that is Ok, from
\* the result r of sys::try_wait.
FinalResult(nr, r) ==
    IF nr = "Ok" /\ r.tag = "Some" THEN WaitOk(r.st) ELSE WaitErr

\* The state is left alone when the attempt failed.
StateAfterWaitStuck(final) ==
    IF final.tag = "Ok" THEN Exited(final.st) ELSE Waiting

\* Lines 123-127.
StateAfterWait(final) ==
    IF final.tag = "Ok" THEN Exited(final.st) ELSE NotWaiting

\* The notification left out.
NotifyNone(pcs) == pcs

\* Line 128: every thread blocked on the condvar is woken and goes for the lock.
NotifyAll(pcs) ==
    [u \in Threads |-> IF pcs[u] = "w_cv" THEN "w_lock" ELSE pcs[u]]

\* Lines 114-129 with the state lock held: reap, leave Waiting, notify, return.
WaitReap(t) ==
    /\ pc[t] = "w_reap"
    /\ \E r \in (IF noreap_result[t] = "Ok" THEN SysTryWait
                                           ELSE {[tag |-> "Err", st |-> NoStatus]}) :
          LET final == FinalResult(noreap_result[t], r) IN
            /\ proc' = (IF noreap_result[t] = "Ok" THEN Reap(r) ELSE proc)
            /\ lastSys' = (IF noreap_result[t] = "Ok" THEN "try_wait" ELSE "none")
            /\ state' = StateAfterWait(final)
            /\ lastRet' = final
            /\ returned' = (IF final.tag = "Ok" THEN returned \cup {final.st}
                                                ELSE returned)
    /\ pc' = NotifyAll([pc EXCEPT ![t] = "idle"])
    /\ noreap_result' = [noreap_result EXCEPT ![t] = "-"]
    /\ state_lock' = {}
    /\ UNCHANGED <<child_lock, exit_status, signalled, faulty, sigToReaped,
                   calledAfterExit>>
    /\ queuedAtFailure' = [u \in Threads |->
          u # t /\ (queuedAtFailure[u] \/ (pc[u] = "w_cv" /\ state' = NotWaiting))]

(***************************************************************************)
(* try_wait, lines 134-157.                                                *)
(***************************************************************************)

StartTryWait(t) ==
    /\ pc[t] = "idle"
    /\ pc' = [pc EXCEPT ![t] = "t_lock"]
    /\ calledAfterExit' = [calledAfterExit EXCEPT ![t] = (proc # "running")]
    /\ lastSys' = "none"
    /\ lastRet' = NoRet
    /\ UNCHANGED <<state, state_lock, child_lock, noreap_result, proc, exit_status,
                   signalled, faulty, returned, sigToReaped>>
    /\ UNCHANGED queuedAtFailure

\* Line 135.
TryWaitLock(t) ==
    /\ pc[t] = "t_lock"
    /\ state_lock = {}
    /\ state_lock' = {t}
    /\ pc' = [pc EXCEPT ![t] = "t_poll"]
    /\ lastSys' = "none"
    /\ lastRet' = NoRet
    /\ UNCHANGED <<state, child_lock, noreap_result, proc, exit_status, signalled,
                   faulty, returned, sigToReaped, calledAfterExit>>
    /\ UNCHANGED queuedAtFailure

\* Lines 151-156: the return value for the result r of sys::try_wait.
TryWaitResult(r) ==
    CASE r.tag = "Some" -> TryWaitSome(r.st)
      [] r.tag = "None" -> TryWaitNone
      [] r.tag = "Err"  -> TryWaitErr

\* TryWaitPoll that polls the platform whatever the state is.
TryWaitPollPolls(t, skip) ==
    /\ pc[t] = "t_poll"
    /\ CASE state.tag \in skip /\ state.tag = "Waiting" ->
              /\ lastRet' = TryWaitNone
              /\ lastSys' = "none"
              /\ UNCHANGED <<state, proc, returned>>
         [] state.tag \in skip /\ state.tag = "Exited" ->
              /\ lastRet' = TryWaitSome(state.st)
              /\ returned' = returned \cup {state.st}
              /\ lastSys' = "none"
              /\ UNCHANGED <<state, proc>>
         [] state.tag \notin skip ->
              \E r \in SysTryWait :
                 /\ proc' = Reap(r)
                 /\ lastSys' = "try_wait"
                 /\ state' = (IF r.tag = "Some" THEN Exited(r.st) ELSE state)
                 /\ lastRet' = TryWaitResult(r)
                 /\ returned' = (IF r.tag = "Some" THEN returned \cup {r.st}
                                                  ELSE returned)
    /\ pc' = [pc EXCEPT ![t] = "idle"]
    /\ calledAfterExit' = [calledAfterExit EXCEPT ![t] = FALSE]
    /\ state_lock' = {}
    /\ UNCHANGED <<child_lock, noreap_result, exit_status, signalled, faulty,
                   sigToReaped>>
    /\ UNCHANGED queuedAtFailure

\* TryWaitPoll without the Exited arm: it polls although the status is cached.
TryWaitPollNoCache(t) == TryWaitPollPolls(t, {"Waiting"})

\* TryWaitPoll without the Waiting arm: it polls while a waiter is at work.
TryWaitPollJoins(t) == TryWaitPollPolls(t, {"Exited"})

\* TryWaitPoll that polls only when it finds a waiter at work.
TryWaitPollNoPoll(t) ==
    /\ pc[t] = "t_poll"
    /\ IF state.tag = "Exited"
         THEN /\ lastRet' = TryWaitSome(state.st)
              /\ returned' = returned \cup {state.st}
         ELSE /\ lastRet' = TryWaitNone
              /\ UNCHANGED returned
    /\ lastSys' = "none"
    /\ pc' = [pc EXCEPT ![t] = "idle"]
    /\ calledAfterExit' = [calledAfterExit EXCEPT ![t] = FALSE]
    /\ state_lock' = {}
    /\ UNCHANGED <<state, proc, child_lock, noreap_result, exit_status, signalled,
                   faulty, sigToReaped>>
    /\ UNCHANGED queuedAtFailure

\* Lines 141-156 with the state lock held, which the return releases.
TryWaitPoll(t) ==
    /\ pc[t] = "t_poll"
    /\ CASE state.tag = "Waiting" ->
              /\ lastRet' = TryWaitNone
              /\ lastSys' = "none"
              /\ UNCHANGED <<state, proc, returned>>
         [] state.tag = "Exited" ->
              /\ lastRet' = TryWaitSome(state.st)
              /\ returned' = returned \cup {state.st}
              /\ lastSys' = "none"
              /\ UNCHANGED <<state, proc>>
         [] state.tag = "NotWaiting" ->
              \E r \in SysTryWait :
                 /\ proc' = Reap(r)
                 /\ lastSys' = "try_wait"
                 /\ state' = (IF r.tag = "Some" THEN Exited(r.st) ELSE state)
                 /\ lastRet' = TryWaitResult(r)
                 /\ returned' = (IF r.tag = "Some" THEN returned \cup {r.st}
                                                  ELSE returned)
    /\ pc' = [pc EXCEPT ![t] = "idle"]
    /\ calledAfterExit' = [calledAfterExit EXCEPT ![t] = FALSE]
    /\ state_lock' = {}
    /\ UNCHANGED <<child_lock, noreap_result, exit_status, signalled, faulty,
                   sigToReaped>>
    /\ UNCHANGED queuedAtFailure

(***************************************************************************)
(* kill, lines 161-168.                                                    *)
(***************************************************************************)

StartKill(t) ==
    /\ pc[t] = "idle"
    /\ pc' = [pc EXCEPT ![t] = "k_lock"]
    /\ lastSys' = "none"
    /\ lastRet' = NoRet
    /\ UNCHANGED <<state, state_lock, child_lock, noreap_result, proc, exit_status,
                   signalled, faulty, returned, sigToReaped, calledAfterExit>>
    /\ UNCHANGED queuedAtFailure

\* Line 162.
KillLock(t) ==
    /\ pc[t] = "k_lock"
    /\ state_lock = {}
    /\ state_lock' = {t}
    /\ pc' = [pc EXCEPT ![t] = "k_check"]
    /\ lastSys' = "none"
    /\ lastRet' = NoRet
    /\ UNCHANGED <<state, child_lock, noreap_result, proc, exit_status, signalled,
                   faulty, returned, sigToReaped, calledAfterExit>>
    /\ UNCHANGED queuedAtFailure

\* KillCheck that drops the state guard before it goes for the child lock.
KillCheckDropsLock(t) ==
    /\ pc[t] = "k_check"
    /\ IF state.tag = "Exited"
         THEN /\ pc' = [pc EXCEPT ![t] = "idle"]
              /\ lastRet' = KillOk("nosignal")
         ELSE /\ pc' = [pc EXCEPT ![t] = "k_childlock"]
              /\ lastRet' = NoRet
    /\ state_lock' = {}
    /\ lastSys' = "none"
    /\ UNCHANGED <<state, child_lock, noreap_result, proc, exit_status, signalled,
                   faulty, returned, sigToReaped, calledAfterExit>>
    /\ UNCHANGED queuedAtFailure

\* KillCheck without the short circuit on Exited.
KillCheckAlways(t) ==
    /\ pc[t] = "k_check"
    /\ pc' = [pc EXCEPT ![t] = "k_childlock"]
    /\ lastSys' = "none"
    /\ lastRet' = NoRet
    /\ UNCHANGED <<state, state_lock, child_lock, noreap_result, proc, exit_status,
                   signalled, faulty, returned, sigToReaped, calledAfterExit>>
    /\ UNCHANGED queuedAtFailure

\* Lines 163-165.  The guard `status` lives to the end of the function: on
\* the way to line 167 the state lock stays held.
KillCheck(t) ==
    /\ pc[t] = "k_check"
    /\ IF state.tag = "Exited"
         THEN /\ pc' = [pc EXCEPT ![t] = "idle"]
              /\ lastRet' = KillOk("nosignal")
              /\ state_lock' = {}
         ELSE /\ pc' = [pc EXCEPT ![t] = "k_childlock"]
              /\ lastRet' = NoRet /\ UNCHANGED state_lock
    /\ lastSys' = "none"
    /\ UNCHANGED <<state, child_lock, noreap_result, proc, exit_status, signalled,
                   faulty, returned, sigToReaped, calledAfterExit>>
    /\ UNCHANGED queuedAtFailure

\* Line 167, self.child.lock().
KillChildLock(t) ==
    /\ pc[t] = "k_childlock"
    /\ child_lock = {}
    /\ child_lock' = {t}
    /\ pc' = [pc EXCEPT ![t] = "k_signal"]
    /\ lastSys' = "none"
    /\ lastRet' = NoRet
    /\ UNCHANGED <<state, state_lock, noreap_result, proc, exit_status, signalled,
                   faulty, returned, sigToReaped, calledAfterExit>>
    /\ UNCHANGED queuedAtFailure

\* The signal followed by a reap of the child when it has already exited.
KillSignalReaps(t) ==
    /\ pc[t] = "k_signal"
    /\ \E r \in SysKill :
          /\ lastRet' = (IF r = "Ok" THEN KillOk("signal") ELSE KillErr)
          /\ signalled' = (signalled \/ (r = "Ok" /\ proc = "running"))
    /\ sigToReaped' = (sigToReaped \/ proc = "reaped")
    /\ proc' = (IF proc = "zombie" THEN "reaped" ELSE proc)
    /\ lastSys' = "kill"
    /\ pc' = [pc EXCEPT ![t] = "idle"]
    /\ child_lock' = child_lock \ {t}
    /\ state_lock' = state_lock \ {t}
    /\ UNCHANGED <<state, noreap_result, exit_status, faulty, returned,
                   calledAfterExit, queuedAtFailure>>

\* Line 167, Child::kill(), then the return, which drops both guards.
KillSignal(t) ==
    /\ pc[t] = "k_signal"
    /\ \E r \in SysKill :
          /\ lastRet' = (IF r = "Ok" THEN KillOk("signal") ELSE KillErr)
          /\ signalled' = (signalled \/ (r = "Ok" /\ proc = "running"))
    /\ sigToReaped' = (sigToReaped \/ proc = "reaped")
    /\ lastSys' = "kill"
    /\ pc' = [pc EXCEPT ![t] = "idle"]
    /\ child_lock' = child_lock \ {t}
    /\ state_lock' = state_lock \ {t}
    /\ UNCHANGED <<state, noreap_result, proc, exit_status, faulty, returned,
                   calledAfterExit>>
    /\ UNCHANGED queuedAtFailure

Next ==
    \/ ChildExit
    \/ \E t \in Threads :
          \/ StartWait(t)
          \/ WaitLock(t)
          \/ WaitLoop(t)
          \/ SpuriousWakeup(t)
          \/ WaitNoreap(t)
          \/ WaitRelock(t)
          \/ WaitReap(t)
          \/ StartTryWait(t)
          \/ TryWaitLock(t)
          \/ TryWaitPoll(t)
          \/ StartKill(t)
          \/ KillLock(t)
          \/ KillCheck(t)
          \/ KillChildLock(t)
          \/ KillSignal(t)

Spec == Init /\ [][Next]_vars

(***************************************************************************)
(* Scheduling.  A thread that can take a step that blocks on nothing takes *)
(* it; a thread that stands before a mutex gets it if the mutex is free    *)
(* again and again.  Nothing obliges a thread to call a method, the child  *)
(* to exit, the platform wait to return or a condvar to wake spuriously.   *)
(***************************************************************************)
Runs(t) ==
    \/ WaitLoop(t)
    \/ WaitReap(t)
    \/ TryWaitPoll(t)
    \/ KillCheck(t)
    \/ KillChildLock(t)
    \/ KillSignal(t)

LocksState(t) ==
    \/ WaitLock(t)
    \/ WaitRelock(t)
    \/ TryWaitLock(t)
    \/ KillLock(t)

SchedFair == \A t \in Threads : WF_vars(Runs(t)) /\ SF_vars(LocksState(t))

\* Fair scheduling of the threads and nothing more: the child may run for
\* ever and the platform wait may block for ever.
SpecSched == Init /\ [][Next]_vars /\ SchedFair

\* A platform whose calls do not fail.
InitOk == Init /\ ~faulty

\* A signalled child exits, and the non-reaping wait returns once the child
\* has exited.
PlatformFair ==
    /\ WF_vars(signalled /\ ChildExit)
    /\ \A t \in Threads : WF_vars(WaitNoreap(t))

SpecLive == InitOk /\ [][Next]_vars /\ SchedFair /\ PlatformFair

(***************************************************************************)
(* Claims.                                                                 *)
(***************************************************************************)

InSection(S) == {t \in Threads : pc[t] \in S}

\* C1: at every instant at most one thread is inside the waiter section of
\* wait (state set to Waiting, not yet set to Exited or NotWaiting), so at
\* most one thread is in the platform non-reaping wait; and the state is
\* Waiting whenever a thread is there.
C1_SingleWaiter ==
    /\ Cardinality(InSection(WaiterSection)) <= 1
    /\ InSection(WaiterSection) # {} => state = Waiting

\* One thread is in the platform wait and every other thread called wait too
\* and was put on the condvar.
C1_Witness ==
    \E t \in Threads :
       /\ pc[t] = "w_noreap"
       /\ \A u \in Threads \ {t} : pc[u] = "w_cv"

\* C2: when kill delivers its signal the exit record has not been reaped: from
\* kill's check of the state to its signal no reap occurs, and no signal is
\* ever sent to a reaped child's identifier.
C2_KillBeforeReap ==
    /\ ~sigToReaped
    /\ \A t \in Threads : pc[t] \in {"k_childlock", "k_signal"} => proc # "reaped"

\* kill has just delivered its signal while a waiter, back from the platform
\* wait on the exited child, stands before the lock it needs for the reap.
C2_Witness ==
    /\ lastSys = "kill"
    /\ lastRet = KillOk("signal")
    /\ proc = "zombie"
    /\ \E u \in Threads : pc[u] = "w_lock2" /\ noreap_result[u] = "Ok"

\* C3: every status returned by a wait call is the status returned by every
\* other wait call and every try_wait call on the handle.
C3_SameStatus ==
    \A a \in returned : \A b \in returned : a = b

\* A wait call has just returned the cached status of the killed child (its
\* step made no platform call), the status the reaping call returned before.
C3_Witness ==
    /\ lastRet = WaitOk("sigkill")
    /\ lastSys = "none"
    /\ returned = {"sigkill"}

PlatformWaits == {"wait_without_reaping", "try_wait"}

\* The child has been sent the kill signal or has exited; once true, true
\* for ever.
Doomed == signalled \/ proc # "running"

\* C4: with a platform that keeps its contract and fair scheduling, every kill
\* call completes and leaves the child signalled or exited; from then on no
\* wait call stays in progress for ever (no follower stays on the condvar) and
\* the state does not stay Waiting; and every wait call that returns returns
\* Ok with the exit status.
C4_WaitersReturn ==
    /\ \A t \in Threads : []<>(pc[t] \notin KillPcs)
    /\ [](lastRet.op = "kill" => (lastRet.tag = "Ok" /\ Doomed))
    /\ \A t \in Threads : []<>(~Doomed \/ pc[t] \notin WaitPcs)
    /\ []<>(~Doomed \/ state # Waiting)
    /\ [](lastRet.op = "wait" => lastRet = WaitOk(exit_status))

\* The child was killed, every wait call has returned the status of the
\* killed child, and no thread is left in a call.
C4_Witness ==
    /\ signalled /\ exit_status = "sigkill"
    /\ lastRet = WaitOk("sigkill")
    /\ returned = {"sigkill"}
    /\ state = Exited("sigkill")
    /\ \A t \in Threads : pc[t] = "idle"

\* C5: the exit record is reaped once: the child is reaped exactly when the
\* state is Exited, and a step taken once the state is Exited (or the child is
\* reaped) issues no platform wait or reap call and changes the process no more.
C5_ReapOnce ==
    /\ [](proc = "reaped" <=> state.tag = "Exited")
    /\ [][(state.tag = "Exited" \/ proc = "reaped")
            => (lastSys' \notin PlatformWaits /\ proc' = proc)]_vars

\* After the reap a try_wait call has returned the cached status, the step
\* issuing no platform call, and another wait call is on its way.
C5_Witness ==
    /\ proc = "reaped"
    /\ lastRet = TryWaitSome(exit_status)
    /\ lastSys = "none"
    /\ \E t \in Threads : pc[t] = "w_lock"

\* C6: Exited is terminal: no step changes an Exited(status) state.
C6_ExitedTerminal ==
    [][state.tag = "Exited" => state' = state]_vars

\* The state is Exited, a kill call has returned on it and a wait call and a
\* try_wait call stand behind the lock.
C6_Witness ==
    /\ state.tag = "Exited"
    /\ lastRet = KillOk("nosignal")
    /\ \E t \in Threads : pc[t] = "w_lock"
    /\ \E t \in Threads : pc[t] = "t_lock"

\* C7: a status returned by wait or try_wait, and a status stored in Exited,
\* is the status the child exited with, and the child has exited and been
\* reaped by then.
C7_ActualStatus ==
    /\ (lastRet.op \in {"wait", "try_wait"} /\ lastRet.tag \in {"Ok", "Some"})
          => (proc = "reaped" /\ lastRet.st = exit_status)
    /\ state.tag = "Exited" => (proc = "reaped" /\ state.st = exit_status)
    /\ \A a \in returned : proc = "reaped" /\ a = exit_status

\* A single wait on a child that exits with status 0 has returned status 0.
C7_Witness ==
    /\ lastRet = WaitOk("code0")
    /\ exit_status = "code0"
    /\ returned = {"code0"}
    /\ \A t \in Threads : pc[t] = "idle"

\* t returns from try_wait in this step.
TryWaitReturns(t) == pc[t] = "t_poll" /\ pc'[t] = "idle"

C9_KillExitedNoop ==
    [][\A t \in Threads : (pc[t] = "k_check" /\ state.tag = "Exited" /\ pc'[t] # pc[t]) =>
          /\ pc'[t] = "idle"
          /\ lastRet' = KillOk("nosignal")
          /\ lastSys' # "kill"
          /\ UNCHANGED <<signalled, sigToReaped, proc, state>>]_vars

\* A kill call has returned Ok without a signal on the Exited state.
C9_Witness ==
    /\ state.tag = "Exited"
    /\ lastRet = KillOk("nosignal")
    /\ \A t \in Threads : pc[t] = "idle"

\* C10: under fair scheduling every kill call and every try_wait call
\* completes, whether or not the child ever exits and the waiter ever comes
\* back from the platform wait.
C10_NeverBlocked ==
    \A t \in Threads : []<>(pc[t] \notin KillPcs \cup TryWaitPcs)

\* A kill call has completed, its signal sent, while the child still runs, a
\* waiter is in the platform wait and a follower is on the condvar.
C10_Witness ==
    /\ proc = "running"
    /\ lastRet = KillOk("signal") /\ lastSys = "kill"
    /\ \E t \in Threads : pc[t] = "w_noreap"
    /\ \E u \in Threads : pc[u] = "w_cv"

\* The step by which thread t leaves the waiter section of wait (lines 113-129).
LeavesSection(t) == pc[t] = "w_reap" /\ pc'[t] # "w_reap"

\* The attempt of the waiter t that is about to run lines 113-129 fails: the
\* non-reaping wait failed, or the reap fails or finds the child still running.
AttemptFails(t) == noreap_result[t] # "Ok" \/ proc' # "reaped"

\* C11: whenever the waiter's attempt fails (the non-reaping wait failed, the
\* reap failed, or the reap found the child still running), that wait call
\* returns an error, the state goes back to NotWaiting (neither Waiting nor
\* Exited), nothing is reaped, every thread blocked on the condvar is woken, and
\* the call does not retry; a wait call that then finds NotWaiting under the
\* lock, queued or later, becomes the waiter.
C11_FailedAttempt ==
    [][\A t \in Threads :
          /\ LeavesSection(t) /\ AttemptFails(t) =>
                /\ lastRet' = WaitErr
                /\ pc'[t] = "idle"
                /\ state' = NotWaiting
                /\ proc' = proc
                /\ state_lock' = {}
                /\ \A u \in Threads : pc[u] = "w_cv" => pc'[u] = "w_lock"
          /\ pc[t] = "w_loop" /\ pc'[t] # "w_loop" /\ state = NotWaiting =>
                pc'[t] = "w_noreap" /\ state' = Waiting]_vars

\* A queued wait call, woken by a failed waiter, is the waiter now and its own
\* non-reaping wait has reported the exit of the child.
C11_Witness ==
    /\ state = Waiting
    /\ proc = "zombie"
    /\ \E t \in Threads : pc[t] = "w_lock2" /\ noreap_result[t] = "Ok"
    /\ \E u \in Threads : pc[u] = "w_lock" /\ queuedAtFailure[u]

\* The step by which thread t, holding the state lock, looks at the state in
\* the loop of wait (lines 72-89).
LooksAtState(t) == pc[t] = "w_loop" /\ pc'[t] # "w_loop"

\* C12 as stated: a thread that was blocked on the condvar when the waiter's
\* attempt failed returns that error from its own wait call, that is, once it
\* has the state lock again its next step is to return the error.
C12_AsStated ==
    [][\A u \in Threads :
          queuedAtFailure[u] /\ LooksAtState(u) =>
              pc'[u] = "idle" /\ lastRet' = WaitErr]_vars

\* C12: the error of a failed attempt goes to the waiter alone. A thread that
\* was blocked on the condvar at the failure is woken and looks at the state
\* again: on NotWaiting it becomes the waiter itself, on Waiting it blocks
\* again, on Exited it returns the cached status. A wait call returns an error
\* only from its own failed attempt in the waiter section.
C12_FollowersRetry ==
    [][\A u \in Threads :
          /\ queuedAtFailure[u] /\ LooksAtState(u) =>
                CASE state = NotWaiting ->
                        pc'[u] = "w_noreap" /\ state' = Waiting /\ lastRet' = NoRet
                  [] state = Waiting ->
                        pc'[u] = "w_cv" /\ state' = state /\ lastRet' = NoRet
                  [] OTHER ->
                        pc'[u] = "idle" /\ lastRet' = WaitOk(state.st)
          /\ pc[u] \in WaitPcs /\ pc'[u] = "idle" /\ lastRet' = WaitErr =>
                LeavesSection(u) /\ AttemptFails(u)
          /\ LeavesSection(u) /\ AttemptFails(u) =>
                \A v \in Threads \ {u} : pc[v] \in WaitPcs => pc'[v] # "idle"]_vars

\* A thread that was blocked on the condvar when an attempt failed holds the
\* state lock again and finds the status that a later waiter has cached.
C12_Witness ==
    \E u \in Threads :
        /\ queuedAtFailure[u]
        /\ pc[u] = "w_loop"
        /\ state.tag = "Exited"

\* The step by which thread t calls the platform non-reaping wait (line 107).
CallsPlatformWait(t) == pc[t] = "w_loop" /\ pc'[t] = "w_noreap"

\* C13 as stated: of the concurrent wait callers only one ever calls the
\* platform wait, so a caller that was blocked on the condvar behind the
\* waiter never goes on to call the platform wait itself.
C13_AsStated ==
    [][\A u \in Threads : queuedAtFailure[u] => ~CallsPlatformWait(u)]_vars

\* C13: a thread calls the platform wait only after finding NotWaiting under
\* the state lock, and while its call is in progress every other wait caller
\* is acquiring the state lock, looking at the state or blocked on the condvar;
\* when no platform call fails, the attempt of the thread that made the call
\* ends in Exited, which is final, and no caller is woken by a failure.
C13_OnePlatformWaiter ==
    [][/\ \A t \in Threads :
            /\ pc'[t] = "w_noreap" /\ pc[t] # "w_noreap" =>
                  CallsPlatformWait(t) /\ state = NotWaiting /\ state' = Waiting
            /\ pc[t] = "w_noreap" =>
                  \A u \in Threads \ {t} :
                      pc[u] \in WaitPcs => pc[u] \in {"w_lock", "w_loop", "w_cv"}
            /\ pc[t] = "w_noreap" /\ pc'[t] # "w_noreap" =>
                  lastSys' = "wait_without_reaping"
            /\ ~faulty /\ LeavesSection(t) => state'.tag = "Exited"
            /\ ~faulty => ~queuedAtFailure[t]
       /\ lastSys' = "wait_without_reaping" =>
            \E t \in Threads : pc[t] = "w_noreap" /\ pc'[t] = "w_lock2"]_vars

\* The platform wait of one thread has just returned while every other thread
\* is a wait caller blocked on the condvar, with no platform failure.
C13_Witness ==
    /\ ~faulty
    /\ lastSys = "wait_without_reaping"
    /\ \E t \in Threads :
          /\ pc[t] = "w_lock2"
          /\ \A u \in Threads \ {t} : pc[u] = "w_cv"

\* C14 as stated: no thread ever holds the state lock and the child lock at
\* the same time.
C14_AsStated ==
    \A t \in Threads : ~(t \in state_lock /\ t \in child_lock)

\* C14: the child lock is only ever held by a thread that is in kill and holds
\* the state lock as well: kill keeps the state lock from its look at the state
\* until Child::kill has returned, acquiring the child lock inside it. wait
\* and try_wait never hold the child lock, and wait holds no lock while it is
\* in the platform wait.
C14_ChildLockInsideStateLock ==
    /\ child_lock \subseteq state_lock
    /\ \A t \in Threads :
          /\ t \in child_lock <=> pc[t] = "k_signal"
          /\ pc[t] \in {"k_check", "k_childlock", "k_signal"} => t \in state_lock
          /\ pc[t] \in {"w_cv", "w_noreap"} => t \notin state_lock

\* A kill call holds both locks, about to send the signal, while another
\* thread wants the state lock.
C14_Witness ==
    \E t \in Threads :
        /\ pc[t] = "k_signal"
        /\ state_lock = {t}
        /\ child_lock = {t}
        /\ \E u \in Threads : pc[u] \in {"w_lock", "t_lock", "k_lock"}

\* The positions at which a thread is acquiring the state lock, and the one at
\* which it is acquiring the child lock.
StateLockPcs == {"w_lock", "w_lock2", "t_lock", "k_lock"}
ChildLockPcs == {"k_childlock"}

\* Thread t holds one of the two locks while acquiring the other, which
\* thread u holds.
HeldUp(t, u) ==
    \/ t \in state_lock /\ pc[t] \in ChildLockPcs /\ u \in child_lock
    \/ t \in child_lock /\ pc[t] \in StateLockPcs /\ u \in state_lock

\* C15: the two locks never deadlock. No two threads each hold one lock while
\* acquiring the one the other holds, no thread acquires a lock it holds
\* itself, and under fair scheduling no thread stays for ever at the
\* acquisition of a lock.
C15_NoDeadlock ==
    /\ [](\A t, u \in Threads : ~(HeldUp(t, u) /\ HeldUp(u, t)))
    /\ \A t \in Threads : []<>(pc[t] \notin StateLockPcs \cup ChildLockPcs)

\* A kill call holds both locks while every other thread is acquiring the
\* state lock, one of them the waiter coming back from the platform wait.
C15_Witness ==
    \E t \in Threads :
        /\ pc[t] = "k_signal"
        /\ state_lock = {t} /\ child_lock = {t}
        /\ \A u \in Threads \ {t} : pc[u] \in StateLockPcs
        /\ \E u \in Threads : pc[u] = "w_lock2"

\* C16 as stated: the state only ever changes from NotWaiting to Waiting, from
\* Waiting to Exited and from Waiting to NotWaiting, and every entry into
\* Exited is made by the waiter leaving the waiter section of wait.
C16_AsStated ==
    [][state' # state =>
          /\ \/ state = NotWaiting /\ state' = Waiting
             \/ state = Waiting /\ state'.tag = "Exited"
             \/ state = Waiting /\ state' = NotWaiting
          /\ state'.tag = "Exited" => \E t \in Threads : LeavesSection(t)]_vars

\* C16: the state changes in four ways only. NotWaiting to Waiting, by a wait
\* call that becomes the waiter; Waiting to Exited and Waiting to NotWaiting, by
\* the waiter leaving the waiter section; and NotWaiting to Exited, by a
\* try_wait call whose poll found the exit status. Every entry into Exited is
\* made in the step of the platform's reaping call and caches the status that
\* the step returns.
C16_Transitions ==
    [][state' # state =>
          \/ /\ state = NotWaiting /\ state' = Waiting
             /\ \E t \in Threads : CallsPlatformWait(t)
          \/ /\ state = Waiting /\ state'.tag = "Exited"
             /\ \E t \in Threads : LeavesSection(t)
             /\ lastSys' = "try_wait" /\ lastRet' = WaitOk(state'.st)
          \/ /\ state = Waiting /\ state' = NotWaiting
             /\ \E t \in Threads : LeavesSection(t)
             /\ lastRet' = WaitErr
          \/ /\ state = NotWaiting /\ state'.tag = "Exited"
             /\ \E t \in Threads : TryWaitReturns(t)
             /\ lastSys' = "try_wait" /\ lastRet' = TryWaitSome(state'.st)]_vars

\* A try_wait call has just taken the state from NotWaiting to Exited while a
\* wait call is on its way to the state lock.
C16_Witness ==
    /\ state.tag = "Exited"
    /\ lastSys = "try_wait"
    /\ lastRet = TryWaitSome(state.st)
    /\ \E u \in Threads : pc[u] = "w_lock"

C18_TryWaitOnNotWaiting ==
    [][\A t \in Threads :
          /\ pc[t] = "t_poll" /\ pc'[t] # "t_poll" /\ state = NotWaiting =>
                /\ t \in state_lock /\ state_lock' = {}
                /\ lastSys' = "try_wait"
                /\ pc'[t] = "idle"
                /\ IF lastRet'.tag = "Some"
                     THEN /\ lastRet' = TryWaitSome(exit_status)
                          /\ state' = Exited(exit_status)
                          /\ proc = "zombie" /\ proc' = "reaped"
                     ELSE /\ lastRet' \in {TryWaitNone, TryWaitErr}
                          /\ state' = NotWaiting
                          /\ proc' = proc
          /\ pc[t] \in TryWaitPcs /\ pc'[t] # pc[t] /\ state # Waiting =>
                state' # Waiting]_vars

\* A try_wait call that found NotWaiting has just returned the error of its
\* poll: the state is still NotWaiting and the exited child is still unreaped.
C18_Witness ==
    /\ lastRet = TryWaitErr
    /\ lastSys = "try_wait"
    /\ state = NotWaiting
    /\ proc = "zombie"

\* The positions of a kill call at which it holds the state lock.
KillLockedPcs == {"k_check", "k_childlock", "k_signal"}

\* C19: no step of a kill call, successful or failed, changes the state or
\* reaps the child, and the only platform call it makes is the signal. From
\* the moment the call looks at the state until it returns, no other thread
\* changes the state or reaps the child either, so an exit record that was
\* unreaped before the call is still unreaped when it returns.
C19_KillFrame ==
    [][/\ \A t \in Threads :
            pc[t] \in KillPcs /\ pc'[t] # pc[t] =>
                /\ UNCHANGED <<state, proc, exit_status, returned>>
                /\ lastSys' \in {"none", "kill"}
                /\ lastRet' \in {NoRet, KillOk("signal"), KillOk("nosignal"), KillErr}
       /\ (\E t \in Threads : pc[t] \in KillLockedPcs) =>
            /\ state' = state
            /\ proc' = "reaped" => proc = "reaped"]_vars

\* A kill call has just failed to deliver its signal: the child is still an
\* unreaped zombie and the waiter, not yet back from the platform wait, still
\* has the state at Waiting.
C19_Witness ==
    /\ lastRet = KillErr
    /\ lastSys = "kill"
    /\ proc = "zombie"
    /\ state = Waiting

\* C20: the state is Waiting exactly when some thread is inside the waiter
\* section of wait, so never when no wait call is in progress. A thread leaves
\* the waiter section only by the step that ends its attempt (lines 113-129):
\* on every outcome that step takes the state out of Waiting, to Exited or to
\* NotWaiting, leaves no thread blocked on the condvar, and returns from wait.
C20_WaitingIffWaiter ==
    /\ [](state = Waiting <=> InSection(WaiterSection) # {})
    /\ [](InSection(WaitPcs) = {} => state # Waiting)
    /\ [][\A t \in Threads :
            pc[t] \in WaiterSection /\ pc'[t] \notin WaiterSection =>
                /\ LeavesSection(t)
                /\ state = Waiting /\ state' # Waiting
                /\ InSection(WaiterSection)' = {}
                /\ \A u \in Threads : pc'[u] # "w_cv"
                /\ pc'[t] = "idle"
                /\ lastRet'.op = "wait"]_vars

\* The waiter has just reaped the child and returned its status: the state is
\* Exited, nobody is in the waiter section, and two other threads, which were
\* blocked on the condvar, are on their way to the state lock.
C20_Witness ==
    /\ lastRet = WaitOk(exit_status)
    /\ lastSys = "try_wait"
    /\ state = Exited(exit_status)
    /\ InSection(WaiterSection) = {}
    /\ Cardinality(InSection({"w_lock"})) >= 2

====
